---- MODULE Spec2Model ----
(***************************************************************************)
(* Weapon-Detection_System: the WebcamDetection React component (state,   *)
(* click handlers, asynchronous callbacks and the closures they run in)    *)
(* and the backend Alert Engine's cooldown state machine.                  *)
(***************************************************************************)
EXTENDS Integers, Sequences, FiniteSets, Bags, TLC

(* ------------------------------- bounds -------------------------------- *)
\* camera acquisitions (getUserMedia calls) made in one behaviour
MaxStarts == 3
\* detector calls that may be outstanding before the model stops submitting
MaxInFlight == 3
\* detections carried by one response or pushed message
MaxDetections == 1
\* seconds between two instants of the Alert Engine's clock, and the last instant
TimeStep == 5
MaxTime == 30
\* DetectionBatches evaluated, and starts of one source, in one behaviour
MaxBatches == 2
MaxSessions == 2
\* files chosen, /detect-image requests made, and /stats requests outstanding
MaxImages == 2
MaxDetects == 2
MaxStatsReqs == 2
\* record / record_alert calls made on the Statistics Store
MaxCalls == 3

(* ------------------------------ constants ------------------------------ *)
WeaponClasses == {"pistol", "knife"}

\* `null` of the stream state
NoStream == 0

\* the two messages the component puts into `error`
ErrWebcam == "Failed to access webcam"
ErrSocket == "Failed to connect to detection server"
NoError == "null"

\* detection lists: sequences of weapon classes, [] included
DetectionLists == UNION {[1..n -> WeaponClasses] : n \in 0..MaxDetections}

\* body of a /detect/video response: with a `detections` field or without one
ResponseBodies == {[has |-> FALSE, detections |-> <<>>]} \cup
                  {[has |-> TRUE, detections |-> d] : d \in DetectionLists}

\* `type` of a pushed WebSocket message
MessageTypes == {"detection", "status"}

VARIABLES
    \* useState of WebcamDetection
    isStreaming, detections, isLoading, error, stream,
    \* what drawDetections / clearRect left on the overlay canvas
    overlay,
    \* startWebcam invocations suspended at `await getUserMedia`: the closure of each
    pendingStarts,
    \* pending setTimeout(sendFrame, 100) callbacks: the closure of each
    timers,
    \* fetch('/detect/video') calls whose promise has not settled
    inFlight,
    \* frames submitted to /detect/video so far (capped at MaxInFlight)
    submitted,
    \* camera streams whose tracks have not been stopped, and streams acquired so far
    liveStreams, acquired,
    \* the WebSocket of the mount effect
    wsState,
    \* stopWebcam has run and startWebcam has not been clicked since
    stoppedSince,
    \* how the last finished startWebcam ended: "none", "ok", "failed"
    lastStart

webcamVars == <<isStreaming, detections, isLoading, error, stream, overlay,
                pendingStarts, timers, inFlight, submitted, liveStreams, acquired,
                wsState, stoppedSince, lastStart>>

(* Alert Engine (backend): one cooldown state machine per (source, class) key *)
VARIABLES
    \* wall-clock time, in seconds
    now,
    \* the sources that are Active, and how many times each was started
    active, session,
    \* CooldownState per key: last_alert_timestamp (NoAlert when Quiet since the
    \* start of the source) and suppressed_count
    cooldown,
    \* the Alerts emitted so far, in order of emission
    alerts,
    \* per key, the times of the qualifying detections evaluated in this session
    evalLog,
    \* DetectionBatches evaluated so far
    batches

alertVars == <<now, active, session, cooldown, alerts, evalLog, batches>>

(* App (frontend/src/App.jsx) and the backend it talks to *)
VARIABLES
    \* useState of App: image and processedImage by the number of the chosen file
    image, processedImage, appDetections, loading, stats, alertTriggered,
    \* the files whose FileReader load has not fired onload yet
    fileReads,
    \* files chosen so far, and /detect-image requests made so far
    chosen, detectsMade,
    \* /detect-image requests whose fetch has not settled
    detectReqs,
    \* /stats requests whose fetch has not settled (a bag)
    statsReqs,
    \* the counters of the backend's Statistics Store
    srvStats,
    \* how the last settled /stats request ended: "none", "ok", "notok", "throw"
    lastStats,
    \* how the request of the last detectWeapons call ended: "none" until it
    \* has settled, then "ok", "notok" or "throw"
    lastDetect

appVars == <<image, processedImage, appDetections, loading, stats, alertTriggered,
             fileReads, chosen, detectsMade, detectReqs, statsReqs, srvStats, lastStats,
             lastDetect>>

(* Statistics Store (backend): counters updated by concurrent sources *)
VARIABLES
    \* the counters
    store,
    \* per source, the call it is in: the counters it still has to increment
    \* and the increments it has made
    calls,
    \* per source, the value loaded by an increment that has not stored yet
    loaded,
    \* per counter, the increments of the calls that have completed
    completed,
    \* record / record_alert calls begun so far
    callsMade,
    \* the snapshot() in progress: the counters read so far, their values, and
    \* per counter the increments completed or in progress when it was read
    snapRead, snapView, snapLow, snapHigh

statsVars == <<store, calls, loaded, completed, callsMade, snapRead, snapView,
               snapLow, snapHigh>>

(* App's conditional render of WebcamDetection *)
VARIABLES
    \* App renders WebcamDetection (activeTab === 'webcam'): it is mounted
    mounted

mountVars == <<mounted>>

vars == <<webcamVars, alertVars, appVars, statsVars, mountVars>>

(* --------------------------- WebcamDetection --------------------------- *)

\* The constants a render binds (const [isStreaming, ...] = useState(false)):
\* every function defined in the component body closes over the values of the
\* render that created it, not over the live state.
RenderClosureLive == [isStreaming |-> TRUE]
RenderClosure == [isStreaming |-> isStreaming]

\* The control button: Start (onClick startWebcam, disabled while isLoading) is
\* rendered only when not streaming, Stop (onClick stopWebcam) only when streaming.
StartButtonNoDisable == ~isStreaming
StartButtonEnabled == ~isStreaming /\ ~isLoading

StopButtonShown == isStreaming

\* drawDetections: clears the overlay and draws the given list
drawDetections(d) == d

\* sendFrame, run in closure cl with `tm` the timers still pending:
\* `if (!isStreaming) return`, then the fetch, then `if (isStreaming) setTimeout`.
sendFrame(cl, tm) ==
    IF ~cl.isStreaming
    THEN /\ inFlight' = inFlight
         /\ submitted' = submitted
         /\ timers' = tm
    ELSE /\ inFlight < MaxInFlight
         /\ inFlight' = inFlight + 1
         /\ submitted' = IF submitted < MaxInFlight THEN submitted + 1 ELSE submitted
         /\ timers' = IF cl.isStreaming THEN Append(tm, cl) ELSE tm

\* click on Start: startWebcam up to `await navigator.mediaDevices.getUserMedia`
startWebcam ==
    /\ StartButtonEnabled
    /\ acquired + Len(pendingStarts) < MaxStarts
    /\ isLoading' = TRUE
    /\ error' = NoError
    /\ pendingStarts' = Append(pendingStarts, RenderClosure)
    /\ stoppedSince' = FALSE
    /\ UNCHANGED <<isStreaming, detections, stream, overlay, timers, inFlight,
                   submitted, liveStreams, acquired, wsState, lastStart>>

\* getUserMedia resolves: setStream, startDetection (first sendFrame call, in
\* the closure of the click), setIsStreaming(true), finally setIsLoading(false)
getUserMediaResolved ==
    /\ pendingStarts # <<>>
    /\ LET cl == Head(pendingStarts)
           mediaStream == acquired + 1
       IN  /\ acquired' = mediaStream
           /\ liveStreams' = liveStreams \cup {mediaStream}
           /\ stream' = mediaStream
           /\ sendFrame(cl, timers)
           /\ isStreaming' = TRUE
           /\ isLoading' = FALSE
           /\ pendingStarts' = Tail(pendingStarts)
           /\ lastStart' = "ok"
    /\ UNCHANGED <<detections, error, overlay, wsState, stoppedSince>>

\* getUserMedia rejects: catch sets the error, finally setIsLoading(false)
getUserMediaRejectedNoFinally ==
    /\ pendingStarts # <<>>
    /\ error' = ErrWebcam
    /\ pendingStarts' = Tail(pendingStarts)
    /\ lastStart' = "failed"
    /\ UNCHANGED <<isStreaming, isLoading, detections, stream, overlay, timers, inFlight,
                   submitted, liveStreams, acquired, wsState, stoppedSince>>

getUserMediaRejected ==
    /\ pendingStarts # <<>>
    /\ error' = ErrWebcam
    /\ isLoading' = FALSE
    /\ pendingStarts' = Tail(pendingStarts)
    /\ lastStart' = "failed"
    /\ UNCHANGED <<isStreaming, detections, stream, overlay, timers, inFlight,
                   submitted, liveStreams, acquired, wsState, stoppedSince>>

\* The component state stopWebcam reads and writes, as a record.
Component == [isStreaming |-> isStreaming, detections |-> detections,
              isLoading |-> isLoading, error |-> error, stream |-> stream,
              overlay |-> overlay, liveStreams |-> liveStreams]

\* stopWebcam as a function of the component state: stop the tracks of `stream`
\* and null it when it is set, setIsStreaming(false), setDetections([]), clear
\* the overlay canvas.
stopWebcamToggles(s) ==
    [s EXCEPT !.liveStreams = IF s.stream # NoStream THEN s.liveStreams \ {s.stream}
                              ELSE s.liveStreams,
              !.stream = NoStream,
              !.isStreaming = ~s.isStreaming,
              !.detections = <<>>,
              !.overlay = <<>>]
stopWebcamKeepsStream(s) ==
    [s EXCEPT !.liveStreams = IF s.stream # NoStream THEN s.liveStreams \ {s.stream}
                              ELSE s.liveStreams,
              !.isStreaming = FALSE,
              !.detections = <<>>,
              !.overlay = <<>>]
stopWebcamLeavesTracks(s) ==
    [s EXCEPT !.stream = NoStream,
              !.isStreaming = FALSE,
              !.detections = <<>>,
              !.overlay = <<>>]
stopWebcamOn(s) ==
    [s EXCEPT !.liveStreams = IF s.stream # NoStream THEN s.liveStreams \ {s.stream}
                              ELSE s.liveStreams,
              !.stream = NoStream,
              !.isStreaming = FALSE,
              !.detections = <<>>,
              !.overlay = <<>>]

\* click on Stop
stopWebcam ==
    /\ StopButtonShown
    /\ LET s == stopWebcamOn(Component)
       IN  /\ isStreaming' = s.isStreaming
           /\ detections' = s.detections
           /\ isLoading' = s.isLoading
           /\ error' = s.error
           /\ stream' = s.stream
           /\ overlay' = s.overlay
           /\ liveStreams' = s.liveStreams
    /\ stoppedSince' = TRUE
    /\ UNCHANGED <<pendingStarts, timers, inFlight, submitted, acquired, wsState, lastStart>>

\* a pending setTimeout(sendFrame, 100) fires: sendFrame runs in its closure
sendFrameTimer(i) ==
    /\ i \in DOMAIN timers
    /\ sendFrame(timers[i], SubSeq(timers, 1, i - 1) \o SubSeq(timers, i + 1, Len(timers)))
    /\ UNCHANGED <<isStreaming, detections, isLoading, error, stream, overlay,
                   pendingStarts, liveStreams, acquired, wsState, stoppedSince, lastStart>>

\* the fetch resolves: .then(response => response.json()).then(data => ...)
fetchThen(data) ==
    /\ inFlight > 0
    /\ inFlight' = inFlight - 1
    /\ IF data.has
       THEN /\ detections' = data.detections
            /\ overlay' = drawDetections(data.detections)
       ELSE UNCHANGED <<detections, overlay>>
    /\ UNCHANGED <<isStreaming, isLoading, error, stream, pendingStarts, timers,
                   submitted, liveStreams, acquired, wsState, stoppedSince, lastStart>>

\* the fetch (or response.json()) rejects: .catch logs
fetchCatch ==
    /\ inFlight > 0
    /\ inFlight' = inFlight - 1
    /\ UNCHANGED <<isStreaming, detections, isLoading, error, stream, overlay,
                   pendingStarts, timers, submitted, liveStreams, acquired, wsState,
                   stoppedSince, lastStart>>

\* wsRef.current.onopen
wsOnOpen ==
    /\ wsState = "connecting"
    /\ wsState' = "open"
    /\ UNCHANGED <<isStreaming, detections, isLoading, error, stream, overlay,
                   pendingStarts, timers, inFlight, submitted, liveStreams, acquired,
                   stoppedSince, lastStart>>

\* wsRef.current.onmessage
wsOnMessage(type, d) ==
    /\ wsState = "open"
    /\ IF type = "detection"
       THEN /\ detections' = d
            /\ overlay' = drawDetections(d)
       ELSE UNCHANGED <<detections, overlay>>
    /\ UNCHANGED <<isStreaming, isLoading, error, stream, pendingStarts, timers,
                   inFlight, submitted, liveStreams, acquired, wsState, stoppedSince,
                   lastStart>>

\* wsRef.current.onerror (the socket closes after an error)
wsOnError ==
    /\ wsState \in {"connecting", "open"}
    /\ wsState' = "closed"
    /\ error' = ErrSocket
    /\ UNCHANGED <<isStreaming, detections, isLoading, stream, overlay, pendingStarts,
                   timers, inFlight, submitted, liveStreams, acquired, stoppedSince,
                   lastStart>>

\* The callbacks the browser's event loop can deliver to the component.
CallbackKinds == {"getUserMedia.resolve", "getUserMedia.reject", "setTimeout",
                  "fetch.then", "fetch.catch", "ws.open", "ws.message", "ws.error"}

RunCallback(kind, i, data, type) ==
    CASE kind = "getUserMedia.resolve" -> getUserMediaResolved
      [] kind = "getUserMedia.reject"  -> getUserMediaRejected
      [] kind = "setTimeout"           -> sendFrameTimer(i)
      [] kind = "fetch.then"           -> fetchThen(data)
      [] kind = "fetch.catch"          -> fetchCatch
      [] kind = "ws.open"              -> wsOnOpen
      [] kind = "ws.message"           -> wsOnMessage(type, data.detections)
      [] kind = "ws.error"             -> wsOnError

\* one turn of the event loop: one pending callback runs to completion
EventLoopTurn ==
    \E kind \in CallbackKinds, i \in 1..MaxInFlight, data \in ResponseBodies,
       type \in MessageTypes :
        RunCallback(kind, i, data, type)

WebcamInit ==
    /\ isStreaming = FALSE
    /\ detections = <<>>
    /\ isLoading = FALSE
    /\ error = NoError
    /\ stream = NoStream
    /\ overlay = <<>>
    /\ pendingStarts = <<>>
    /\ timers = <<>>
    /\ inFlight = 0
    /\ submitted = 0
    /\ liveStreams = {}
    /\ acquired = 0
    /\ wsState = "connecting"
    /\ stoppedSince = FALSE
    /\ lastStart = "none"

(* -------------------- mounting and unmounting (App) -------------------- *)

\* click on the Image Upload tab while the webcam tab is shown: App stops
\* rendering WebcamDetection. React runs the cleanup of the component's effect,
\* which closes the WebSocket, and discards the component's state and refs;
\* what the browser holds (camera streams, timers, promises) stays as it is.
setActiveTabUpload ==
    /\ mounted
    /\ mounted' = FALSE
    /\ wsState' = "closed"
    /\ isStreaming' = FALSE
    /\ detections' = <<>>
    /\ isLoading' = FALSE
    /\ error' = NoError
    /\ stream' = NoStream
    /\ overlay' = <<>>
    /\ stoppedSince' = FALSE
    /\ UNCHANGED <<pendingStarts, timers, inFlight, submitted, liveStreams, acquired,
                   lastStart>>

\* click on the Live Webcam tab while the upload tab is shown: a new
\* WebcamDetection mounts with its initial state and its effect opens a new
\* WebSocket. (Taken once the callbacks of the previous instance have run.)
setActiveTabWebcam ==
    /\ ~mounted
    /\ pendingStarts = <<>> /\ timers = <<>> /\ inFlight = 0
    /\ mounted' = TRUE
    /\ wsState' = "connecting"
    /\ UNCHANGED <<isStreaming, detections, isLoading, error, stream, overlay,
                   pendingStarts, timers, inFlight, submitted, liveStreams, acquired,
                   stoppedSince, lastStart>>

\* getUserMedia resolves for a component that has unmounted: the camera is
\* acquired, the state setters do nothing, videoRef.current is null, and
\* startDetection runs sendFrame in the closure of the click
getUserMediaResolvedUnmounted ==
    /\ pendingStarts # <<>>
    /\ LET cl == Head(pendingStarts)
           mediaStream == acquired + 1
       IN  /\ acquired' = mediaStream
           /\ liveStreams' = liveStreams \cup {mediaStream}
           /\ sendFrame(cl, timers)
           /\ pendingStarts' = Tail(pendingStarts)
           /\ lastStart' = "ok"
    /\ UNCHANGED <<isStreaming, detections, isLoading, error, stream, overlay, wsState,
                   stoppedSince>>

\* getUserMedia rejects for a component that has unmounted: the setters do nothing
getUserMediaRejectedUnmounted ==
    /\ pendingStarts # <<>>
    /\ pendingStarts' = Tail(pendingStarts)
    /\ lastStart' = "failed"
    /\ UNCHANGED <<isStreaming, detections, isLoading, error, stream, overlay, timers,
                   inFlight, submitted, liveStreams, acquired, wsState, stoppedSince>>

\* The callbacks the event loop can still deliver after the unmount: the
\* closed WebSocket delivers none; a settled fetch finds the setters doing
\* nothing and drawDetections returning at its null check of canvasRef.
UnmountedCallbackKinds == {"getUserMedia.resolve", "getUserMedia.reject", "setTimeout",
                           "fetch.settle"}

RunCallbackUnmounted(kind, i) ==
    CASE kind = "getUserMedia.resolve" -> getUserMediaResolvedUnmounted
      [] kind = "getUserMedia.reject"  -> getUserMediaRejectedUnmounted
      [] kind = "setTimeout"           -> sendFrameTimer(i)
      [] kind = "fetch.settle"         -> fetchCatch

\* one turn of the event loop while WebcamDetection is unmounted
EventLoopTurnUnmounted ==
    /\ ~mounted
    /\ \E kind \in UnmountedCallbackKinds, i \in 1..MaxInFlight :
          RunCallbackUnmounted(kind, i)
    /\ UNCHANGED mounted

MountInit == mounted = TRUE

(* ----------------------------- Alert Engine ----------------------------- *)

Sources == {"cam1", "cam2"}
Keys == Sources \X WeaponClasses

\* seconds; README "Cooldown Period: Prevents spam alerts (30 seconds)"
CooldownDuration == 30
\* confidence in tenths; README "Confidence Threshold ... (default: 0.5)"
ConfidenceThreshold == 5
\* confidences a batch can carry for a class, in tenths; 0: the class is absent
Confidences == {0, 4, 5}

\* last_alert_timestamp of a key with no Alert since the start of its source
NoAlert == -1

\* a DetectionBatch, by the best confidence it holds for each class
Batches == [WeaponClasses -> Confidences]

\* batch holds a Detection of class c with confidence >= threshold
QualifiesAnyClass(batch, c) == \E x \in WeaponClasses : batch[x] >= ConfidenceThreshold
Qualifies(batch, c) == batch[c] >= ConfidenceThreshold

\* the key is Quiet: never alerted in this session, or the cooldown has elapsed
QuietIgnoresCooldown(cs, t) == TRUE
Quiet(cs, t) == cs.last = NoAlert \/ t - cs.last >= CooldownDuration

QuietState == [last |-> NoAlert, suppressed |-> 0]

\* the classes of a batch whose evaluation emits an Alert
Emitting(s, batch) ==
    {c \in WeaponClasses : Qualifies(batch, c) /\ Quiet(cooldown[<<s, c>>], now)}

RECURSIVE AlertsFor(_, _, _)
\* the Alerts of source s for the classes of set cs, in a fixed order
AlertsFor(s, batch, cs) ==
    IF cs = {} THEN <<>>
    ELSE LET c == CHOOSE x \in cs : TRUE
         IN  <<[source |-> s, class |-> c, confidence |-> batch[c], timestamp |-> now,
                session |-> session[s]]>> \o AlertsFor(s, batch, cs \ {c})

\* Transition rule of section 4.4, for one batch of an Active source: every
\* class that qualifies has its key evaluated, each key on its own.
evaluate(s, batch) ==
    /\ active[s]
    /\ batches < MaxBatches
    /\ batches' = batches + 1
    /\ cooldown' = [k \in Keys |->
          IF k[1] = s /\ Qualifies(batch, k[2])
          THEN IF Quiet(cooldown[k], now)
               THEN [cooldown[k] EXCEPT !.last = now]
               ELSE [cooldown[k] EXCEPT !.suppressed = @ + 1]
          ELSE cooldown[k]]
    /\ alerts' = alerts \o AlertsFor(s, batch, Emitting(s, batch))
    /\ evalLog' = [k \in Keys |->
          IF k[1] = s /\ batch[k[2]] >= ConfidenceThreshold THEN Append(evalLog[k], now)
          ELSE evalLog[k]]
    /\ UNCHANGED <<now, active, session>>

\* start(source): Idle -> Active
startSource(s) ==
    /\ ~active[s]
    /\ session[s] < MaxSessions
    /\ active' = [active EXCEPT ![s] = TRUE]
    /\ session' = [session EXCEPT ![s] = @ + 1]
    /\ UNCHANGED <<now, cooldown, alerts, evalLog, batches>>

\* stop(source): the CooldownStates of the source are garbage-collected
stopSource(s) ==
    /\ active[s]
    /\ active' = [active EXCEPT ![s] = FALSE]
    /\ cooldown' = [k \in Keys |-> IF k[1] = s THEN QuietState ELSE cooldown[k]]
    /\ evalLog' = [k \in Keys |-> IF k[1] = s THEN <<>> ELSE evalLog[k]]
    /\ UNCHANGED <<now, session, alerts, batches>>

\* time passes
clockTick ==
    /\ now + TimeStep <= MaxTime
    /\ now' = now + TimeStep
    /\ UNCHANGED <<active, session, cooldown, alerts, evalLog, batches>>

AlertInit ==
    /\ now = 0
    /\ active = [s \in Sources |-> FALSE]
    /\ session = [s \in Sources |-> 0]
    /\ cooldown = [k \in Keys |-> QuietState]
    /\ alerts = <<>>
    /\ evalLog = [k \in Keys |-> <<>>]
    /\ batches = 0

(* --------------------------------- App --------------------------------- *)

\* JSON value of the alert_triggered field of a /detect-image response
AlertFlags == {"true", "false", "undefined"}

\* bodies of an ok /detect-image response: detections and alert_triggered, an
\* alert only with a detection, or a body with neither field; processed_image
\* is the annotated copy of the posted image
DetectBodies ==
    {[hasDetections |-> FALSE, detections |-> <<>>, alert_triggered |-> "undefined"],
     [hasDetections |-> TRUE, detections |-> <<>>, alert_triggered |-> "false"],
     [hasDetections |-> TRUE, detections |-> <<"pistol">>, alert_triggered |-> "false"],
     [hasDetections |-> TRUE, detections |-> <<"pistol">>, alert_triggered |-> "true"]}

\* data.detections || []
detectionsOrEmpty(data) == IF data.hasDetections THEN data.detections ELSE <<>>

\* data.alert_triggered || false
alertTriggeredDefaultTrue(data) == data.alert_triggered # "false"
alertTriggeredOrFalse(data) == data.alert_triggered = "true"

\* `null` of image and processedImage
NoImage == 0

\* `null` of stats, and a snapshot of the counters as the stats state holds it
NoStats == [isNull |-> TRUE, total_detections |-> 0, alerts_sent |-> 0]
statsOf(snap) ==
    [isNull |-> FALSE, total_detections |-> snap.total_detections,
     alerts_sent |-> snap.alerts_sent]

\* JSON body of a non-ok /stats response: an error object, no counter in it
Undefined == -1
ErrorBody == [total_detections |-> Undefined, alerts_sent |-> Undefined]

\* the ways a fetch can settle: an ok response, a non-ok response, a rejection
Outcomes == {"ok", "notok", "throw"}

\* fetchStats once its fetch has settled: setStats(data) only when response.ok
fetchStatsIgnoresOk(st, outcome, body) == IF outcome # "throw" THEN statsOf(body) ELSE st
fetchStatsSettled(st, outcome, body) == IF outcome = "ok" THEN statsOf(body) ELSE st

\* a /stats request the backend has not answered yet
Unanswered == [answered |-> FALSE, ok |-> FALSE, body |-> ErrorBody]

\* fetchStats up to `await fetch('/stats')`: one more request outstanding
fetchStats(reqs) == reqs (+) SetToBag({Unanswered})

\* the Detect button: rendered when an image is set, disabled while loading
DetectButtonNoDisable == image # NoImage
DetectButtonEnabled == image # NoImage /\ ~loading

RemoveAt(seq, i) == SubSeq(seq, 1, i - 1) \o SubSeq(seq, i + 1, Len(seq))

\* setInterval(fetchStats, 5000) fires
pollStats ==
    /\ BagCardinality(statsReqs) < MaxStatsReqs
    /\ statsReqs' = fetchStats(statsReqs)
    /\ UNCHANGED <<image, processedImage, appDetections, loading, stats, alertTriggered,
                   fileReads, chosen, detectsMade, detectReqs, srvStats, lastStats, lastDetect>>

\* the backend answers a /stats request: snapshot() of the Statistics Store,
\* or a non-ok status
serverStats(ok) ==
    /\ BagIn(Unanswered, statsReqs)
    /\ statsReqs' = (statsReqs (-) SetToBag({Unanswered})) (+)
          SetToBag({[answered |-> TRUE, ok |-> ok,
                     body |-> IF ok THEN srvStats ELSE ErrorBody]})
    /\ UNCHANGED <<image, processedImage, appDetections, loading, stats, alertTriggered,
                   fileReads, chosen, detectsMade, detectReqs, srvStats, lastStats, lastDetect>>

\* the fetch of /stats request r settles, in any order: fetchStats resumes
statsSettled(r, outcome) ==
    /\ BagIn(r, statsReqs)
    /\ outcome \in Outcomes
    /\ outcome = "ok" => (r.answered /\ r.ok)
    /\ outcome = "notok" => (r.answered /\ ~r.ok)
    /\ stats' = fetchStatsSettled(stats, outcome, r.body)
    /\ statsReqs' = statsReqs (-) SetToBag({r})
    /\ lastStats' = outcome
    /\ UNCHANGED <<image, processedImage, appDetections, loading, alertTriggered,
                   fileReads, chosen, detectsMade, detectReqs, srvStats, lastDetect>>

\* handleImageUpload: a file is chosen and reader.readAsDataURL starts
handleImageUpload ==
    /\ chosen < MaxImages
    /\ chosen' = chosen + 1
    /\ fileReads' = fileReads \cup {chosen + 1}
    /\ UNCHANGED <<image, processedImage, appDetections, loading, stats, alertTriggered,
                   detectsMade, detectReqs, statsReqs, srvStats, lastStats, lastDetect>>

\* reader.onload: the new image is set and the results are reset
readerOnload(f) ==
    /\ f \in fileReads
    /\ image' = f
    /\ processedImage' = NoImage
    /\ appDetections' = <<>>
    /\ alertTriggered' = FALSE
    /\ fileReads' = fileReads \ {f}
    /\ UNCHANGED <<loading, stats, chosen, detectsMade, detectReqs, statsReqs, srvStats,
                   lastStats, lastDetect>>

\* click on Detect: detectWeapons up to `await fetch('/detect-image')`
detectWeapons ==
    /\ DetectButtonEnabled
    /\ detectsMade < MaxDetects
    /\ detectsMade' = detectsMade + 1
    /\ loading' = TRUE
    /\ detectReqs' = Append(detectReqs,
          [image |-> image, answered |-> FALSE, ok |-> FALSE,
           body |-> [hasDetections |-> FALSE, detections |-> <<>>,
                     alert_triggered |-> "undefined"]])
    /\ lastDetect' = "none"
    /\ UNCHANGED <<image, processedImage, appDetections, stats, alertTriggered,
                   fileReads, chosen, statsReqs, srvStats, lastStats>>

\* the backend answers a /detect-image request: with an ok body, after
\* record(batch) and record_alert(alert) on the Statistics Store, or with a
\* non-ok status
serverDetect(i, ok, body) ==
    /\ i \in DOMAIN detectReqs
    /\ ~detectReqs[i].answered
    /\ detectReqs' = [detectReqs EXCEPT ![i].answered = TRUE, ![i].ok = ok,
                                         ![i].body = IF ok THEN body ELSE @]
    /\ srvStats' =
          IF ok
          THEN [total_detections |->
                    srvStats.total_detections + Len(detectionsOrEmpty(body)),
                alerts_sent |->
                    srvStats.alerts_sent + (IF body.alert_triggered = "true" THEN 1 ELSE 0)]
          ELSE srvStats
    /\ UNCHANGED <<image, processedImage, appDetections, loading, stats, alertTriggered,
                   fileReads, chosen, detectsMade, statsReqs, lastStats, lastDetect>>

\* the fetch of a /detect-image request settles: detectWeapons resumes
detectSettledNoFinally(i, outcome) ==
    /\ i \in DOMAIN detectReqs
    /\ outcome \in Outcomes
    /\ outcome = "ok" => (detectReqs[i].answered /\ detectReqs[i].ok)
    /\ outcome = "notok" => (detectReqs[i].answered /\ ~detectReqs[i].ok)
    /\ IF outcome = "ok"
       THEN /\ BagCardinality(statsReqs) < MaxStatsReqs
            /\ processedImage' = detectReqs[i].image
            /\ appDetections' = detectionsOrEmpty(detectReqs[i].body)
            /\ alertTriggered' = alertTriggeredOrFalse(detectReqs[i].body)
            /\ statsReqs' = fetchStats(statsReqs)
       ELSE UNCHANGED <<processedImage, appDetections, alertTriggered, statsReqs>>
    /\ loading' = IF outcome = "throw" THEN loading ELSE FALSE
    /\ detectReqs' = RemoveAt(detectReqs, i)
    /\ lastDetect' = outcome
    /\ UNCHANGED <<image, stats, fileReads, chosen, detectsMade, srvStats, lastStats>>
detectSettledAppliesNotOk(i, outcome) ==
    /\ i \in DOMAIN detectReqs
    /\ outcome \in Outcomes
    /\ outcome = "ok" => (detectReqs[i].answered /\ detectReqs[i].ok)
    /\ outcome = "notok" => (detectReqs[i].answered /\ ~detectReqs[i].ok)
    /\ IF outcome # "throw"
       THEN /\ BagCardinality(statsReqs) < MaxStatsReqs
            /\ processedImage' = detectReqs[i].image
            /\ appDetections' = detectionsOrEmpty(detectReqs[i].body)
            /\ alertTriggered' = alertTriggeredOrFalse(detectReqs[i].body)
            /\ statsReqs' = fetchStats(statsReqs)
       ELSE UNCHANGED <<processedImage, appDetections, alertTriggered, statsReqs>>
    /\ loading' = FALSE
    /\ detectReqs' = RemoveAt(detectReqs, i)
    /\ lastDetect' = outcome
    /\ UNCHANGED <<image, stats, fileReads, chosen, detectsMade, srvStats, lastStats>>
detectSettled(i, outcome) ==
    /\ i \in DOMAIN detectReqs
    /\ outcome \in Outcomes
    /\ outcome = "ok" => (detectReqs[i].answered /\ detectReqs[i].ok)
    /\ outcome = "notok" => (detectReqs[i].answered /\ ~detectReqs[i].ok)
    /\ IF outcome = "ok"
       THEN /\ BagCardinality(statsReqs) < MaxStatsReqs
            /\ processedImage' = detectReqs[i].image
            /\ appDetections' = detectionsOrEmpty(detectReqs[i].body)
            /\ alertTriggered' = alertTriggeredOrFalse(detectReqs[i].body)
            /\ statsReqs' = fetchStats(statsReqs)
       ELSE UNCHANGED <<processedImage, appDetections, alertTriggered, statsReqs>>
    /\ loading' = FALSE
    /\ detectReqs' = RemoveAt(detectReqs, i)
    /\ lastDetect' = outcome
    /\ UNCHANGED <<image, stats, fileReads, chosen, detectsMade, srvStats, lastStats>>

\* App after its mount: the effect has called fetchStats once
AppInit ==
    /\ image = NoImage
    /\ processedImage = NoImage
    /\ appDetections = <<>>
    /\ loading = FALSE
    /\ stats = NoStats
    /\ alertTriggered = FALSE
    /\ fileReads = {}
    /\ chosen = 0
    /\ detectsMade = 0
    /\ detectReqs = <<>>
    /\ statsReqs = fetchStats(EmptyBag)
    /\ srvStats = [total_detections |-> 0, alerts_sent |-> 0]
    /\ lastStats = "none"
    /\ lastDetect = "none"

(* --------------------------- Statistics Store -------------------------- *)

\* the counters GET /stats returns
CounterNames == {"total_detections", "knife_detections", "pistol_detections",
                 "alerts_sent"}

\* the order in which record and snapshot go through the counters
CounterOrder == <<"total_detections", "knife_detections", "pistol_detections",
                  "alerts_sent">>

Zero == [c \in CounterNames |-> 0]

\* no value loaded
NotLoaded == -1

\* each counter increment is atomic
IncrementInTwoSteps == FALSE
IncrementIsAtomic == TRUE

\* the counters record(batch) increments: for each class with a detection at or
\* above the threshold, the total and the counter of the class
RecordIncrements(batch) ==
    (IF Qualifies(batch, "knife") THEN <<"total_detections", "knife_detections">>
     ELSE <<>>) \o
    (IF Qualifies(batch, "pistol") THEN <<"total_detections", "pistol_detections">>
     ELSE <<>>)

\* the increments a sequence of counter names makes on each counter
Occurrences(seq) ==
    [c \in CounterNames |-> Cardinality({i \in DOMAIN seq : seq[i] = c})]

IdleCall == [todo |-> <<>>, made |-> <<>>]

\* source s calls record(batch)
record(s, batch) ==
    /\ calls[s] = IdleCall
    /\ RecordIncrements(batch) # <<>>
    /\ callsMade < MaxCalls
    /\ callsMade' = callsMade + 1
    /\ calls' = [calls EXCEPT ![s] = [todo |-> RecordIncrements(batch), made |-> <<>>]]
    /\ UNCHANGED <<store, loaded, completed, snapRead, snapView, snapLow, snapHigh>>

\* source s calls record_alert(alert)
record_alert(s) ==
    /\ calls[s] = IdleCall
    /\ callsMade < MaxCalls
    /\ callsMade' = callsMade + 1
    /\ calls' = [calls EXCEPT ![s] = [todo |-> <<"alerts_sent">>, made |-> <<>>]]
    /\ UNCHANGED <<store, loaded, completed, snapRead, snapView, snapLow, snapHigh>>

\* the call of source s has made the increment at the head of its todo list;
\* it returns when that was the last one
Incremented(s) ==
    LET c == Head(calls[s].todo)
        made == Append(calls[s].made, c)
    IN  IF Tail(calls[s].todo) = <<>>
        THEN /\ calls' = [calls EXCEPT ![s] = IdleCall]
             /\ completed' = [n \in CounterNames |-> completed[n] + Occurrences(made)[n]]
        ELSE /\ calls' = [calls EXCEPT ![s] = [todo |-> Tail(calls[s].todo), made |-> made]]
             /\ completed' = completed

\* the call of source s takes its next step on the counter it has to increment
increment(s) ==
    /\ calls[s].todo # <<>>
    /\ LET c == Head(calls[s].todo)
       IN  IF IncrementIsAtomic
           THEN /\ store' = [store EXCEPT ![c] = @ + 1]
                /\ loaded' = loaded
                /\ Incremented(s)
           ELSE IF loaded[s] = NotLoaded
                THEN /\ loaded' = [loaded EXCEPT ![s] = store[c]]
                     /\ UNCHANGED <<store, calls, completed>>
                ELSE /\ store' = [store EXCEPT ![c] = loaded[s] + 1]
                     /\ loaded' = [loaded EXCEPT ![s] = NotLoaded]
                     /\ Incremented(s)
    /\ UNCHANGED <<callsMade, snapRead, snapView, snapLow, snapHigh>>

\* increments of counter c made by the calls still in progress / still to make
MadeInProgress(c) ==
    LET RECURSIVE Sum(_)
        Sum(ss) == IF ss = {} THEN 0
                   ELSE LET s == CHOOSE x \in ss : TRUE
                        IN  Occurrences(calls[s].made)[c] + Sum(ss \ {s})
    IN  Sum(Sources)

TodoInProgress(c) ==
    LET RECURSIVE Sum(_)
        Sum(ss) == IF ss = {} THEN 0
                   ELSE LET s == CHOOSE x \in ss : TRUE
                        IN  Occurrences(calls[s].todo)[c] + Sum(ss \ {s})
    IN  Sum(Sources)

\* snapshot() reads the next counter; a new snapshot() begins after the last
snapshot ==
    /\ LET n == IF snapRead = Len(CounterOrder) THEN 1 ELSE snapRead + 1
           c == CounterOrder[n]
       IN  /\ snapRead' = n
           /\ snapView' = [(IF n = 1 THEN Zero ELSE snapView) EXCEPT ![c] = store[c]]
           /\ snapLow' = [(IF n = 1 THEN Zero ELSE snapLow) EXCEPT ![c] = completed[c]]
           /\ snapHigh' = [(IF n = 1 THEN Zero ELSE snapHigh) EXCEPT
                              ![c] = completed[c] + MadeInProgress(c) + TodoInProgress(c)]
    /\ UNCHANGED <<store, calls, loaded, completed, callsMade>>

StatsInit ==
    /\ store = Zero
    /\ calls = [s \in Sources |-> IdleCall]
    /\ loaded = [s \in Sources |-> NotLoaded]
    /\ completed = Zero
    /\ callsMade = 0
    /\ snapRead = 0
    /\ snapView = Zero
    /\ snapLow = Zero
    /\ snapHigh = Zero

(* ---------------------------- specifications --------------------------- *)

Init == WebcamInit /\ AlertInit /\ AppInit /\ StatsInit /\ MountInit

\* the WebcamDetection component, from its mount on
Next ==
    \/ startWebcam /\ UNCHANGED <<alertVars, appVars, statsVars, mountVars>>
    \/ stopWebcam /\ UNCHANGED <<alertVars, appVars, statsVars, mountVars>>
    \/ EventLoopTurn /\ UNCHANGED <<alertVars, appVars, statsVars, mountVars>>

Spec == Init /\ [][Next]_vars

\* the Alert Engine fed by the sources
AlertNext ==
    \/ \E s \in Sources : startSource(s) /\ UNCHANGED <<webcamVars, appVars, statsVars, mountVars>>
    \/ \E s \in Sources : stopSource(s) /\ UNCHANGED <<webcamVars, appVars, statsVars, mountVars>>
    \/ \E s \in Sources, batch \in Batches :
          evaluate(s, batch) /\ UNCHANGED <<webcamVars, appVars, statsVars, mountVars>>
    \/ clockTick /\ UNCHANGED <<webcamVars, appVars, statsVars, mountVars>>

SpecAlert == Init /\ [][AlertNext]_vars

\* the App component on the upload tab, and the backend answering it
AppNext ==
    \/ pollStats /\ UNCHANGED <<webcamVars, alertVars, statsVars, mountVars>>
    \/ \E ok \in BOOLEAN : serverStats(ok) /\ UNCHANGED <<webcamVars, alertVars, statsVars, mountVars>>
    \/ \E r \in BagToSet(statsReqs), outcome \in Outcomes :
          statsSettled(r, outcome) /\ UNCHANGED <<webcamVars, alertVars, statsVars, mountVars>>
    \/ handleImageUpload /\ UNCHANGED <<webcamVars, alertVars, statsVars, mountVars>>
    \/ \E f \in fileReads : readerOnload(f) /\ UNCHANGED <<webcamVars, alertVars, statsVars, mountVars>>
    \/ detectWeapons /\ UNCHANGED <<webcamVars, alertVars, statsVars, mountVars>>
    \/ \E i \in 1..MaxDetects, ok \in BOOLEAN, body \in DetectBodies :
          serverDetect(i, ok, body) /\ UNCHANGED <<webcamVars, alertVars, statsVars, mountVars>>
    \/ \E i \in 1..MaxDetects, outcome \in Outcomes :
          detectSettled(i, outcome) /\ UNCHANGED <<webcamVars, alertVars, statsVars, mountVars>>

SpecApp == Init /\ [][AppNext]_vars

\* the Statistics Store under concurrent sources and a snapshot reader
StatsNext ==
    \/ \E s \in Sources, batch \in Batches :
          record(s, batch) /\ UNCHANGED <<webcamVars, alertVars, appVars, mountVars>>
    \/ \E s \in Sources : record_alert(s) /\ UNCHANGED <<webcamVars, alertVars, appVars, mountVars>>
    \/ \E s \in Sources : increment(s) /\ UNCHANGED <<webcamVars, alertVars, appVars, mountVars>>
    \/ snapshot /\ UNCHANGED <<webcamVars, alertVars, appVars, mountVars>>

SpecStats == Init /\ [][StatsNext]_vars

\* the WebcamDetection component as App mounts and unmounts it
MountNext ==
    \/ mounted /\ startWebcam /\ UNCHANGED <<alertVars, appVars, statsVars, mountVars>>
    \/ mounted /\ stopWebcam /\ UNCHANGED <<alertVars, appVars, statsVars, mountVars>>
    \/ mounted /\ EventLoopTurn /\ UNCHANGED <<alertVars, appVars, statsVars, mountVars>>
    \/ EventLoopTurnUnmounted /\ UNCHANGED <<alertVars, appVars, statsVars>>
    \/ setActiveTabUpload /\ UNCHANGED <<alertVars, appVars, statsVars>>
    \/ setActiveTabWebcam /\ UNCHANGED <<alertVars, appVars, statsVars>>

SpecMount == Init /\ [][MountNext]_vars

(* ------------------------------ properties ----------------------------- *)

AlertsCooldownApart ==
    \A i, j \in DOMAIN alerts :
        (/\ i < j
         /\ alerts[i].source = alerts[j].source
         /\ alerts[i].class = alerts[j].class
         /\ \E h \in 1..(j - 1) : /\ alerts[h].source = alerts[j].source
                                  /\ alerts[h].class = alerts[j].class
                                  /\ alerts[h].session = alerts[j].session)
        => alerts[j].timestamp - alerts[i].timestamp >= CooldownDuration

\* a key alerted twice in one session of its source
TwoAlertsOneSession ==
    \E i, j \in DOMAIN alerts :
        /\ i < j
        /\ alerts[i].source = alerts[j].source
        /\ alerts[i].class = alerts[j].class
        /\ alerts[i].session = alerts[j].session

RECURSIVE EmittedTimes(_, _)
\* the detections of a log that emit an Alert, `last` being the time of the
\* latest Alert before the log
EmittedTimes(log, last) ==
    IF log = <<>> THEN <<>>
    ELSE IF last = NoAlert \/ Head(log) - last >= CooldownDuration
         THEN <<Head(log)>> \o EmittedTimes(Tail(log), Head(log))
         ELSE EmittedTimes(Tail(log), last)

\* timestamps of the Alerts of key k emitted in the current session of its source
SessionAlertTimes(k) ==
    LET idx == {i \in DOMAIN alerts : /\ alerts[i].source = k[1]
                                      /\ alerts[i].class = k[2]
                                      /\ alerts[i].session = session[k[1]]}
    IN  {alerts[i].timestamp : i \in idx}

SessionAlertCount(k) ==
    Cardinality({i \in DOMAIN alerts : /\ alerts[i].source = k[1]
                                       /\ alerts[i].class = k[2]
                                       /\ alerts[i].session = session[k[1]]})

NoWorkSurvivesStop ==
    /\ [](stoppedSince => timers = <<>>)
    /\ [][stoppedSince => submitted' = submitted]_vars

\* an Active session has been stopped
StoppedAfterStreaming ==
    stoppedSince /\ ~isStreaming /\ stream = NoStream /\ acquired > 0

\* C5: from the stop until the next start the detections state stays empty
\* and nothing is drawn on the overlay.
LateResultsDiscarded == stoppedSince => (detections = <<>> /\ overlay = <<>>)

\* C6: once startWebcam has made the source Active, a frame has been submitted
\* or the frame loop has a tick pending.
ActiveSourceSubmitsFrames == isStreaming => (submitted > 0 \/ timers # <<>>)

\* C7: stopWebcam on a stopped source leaves isStreaming false, stream null,
\* detections empty, and error, isLoading and the live streams as they were;
\* stopping twice gives the state that stopping once gives.
StopIsIdempotent ==
    LET s == Component
        t == stopWebcamOn(s)
    IN  /\ stopWebcamOn(t) = t
        /\ ~s.isStreaming =>
              /\ t.isStreaming = FALSE
              /\ t.stream = NoStream
              /\ t.detections = <<>>
              /\ t.error = s.error
              /\ t.isLoading = s.isLoading
              /\ t.liveStreams = s.liveStreams

\* a stopped source that holds an error and pushed detections
StoppedWithErrorAndDetections ==
    stoppedSince /\ ~isStreaming /\ error # NoError /\ detections # <<>>

\* C8: at most one startWebcam is acquiring the camera, none while the source
\* is Active, and at most one camera stream and one frame loop exist.
StartDoesNotDuplicate ==
    /\ Len(pendingStarts) <= 1
    /\ (isStreaming => pendingStarts = <<>>)
    /\ (pendingStarts # <<>> => isLoading)
    /\ Cardinality(liveStreams) <= 1
    /\ Len(timers) <= 1

\* the source is Active in its second session, with one stream
ActiveAgainWithOneStream ==
    isStreaming /\ acquired >= 2 /\ liveStreams = {stream}

\* C9: when startWebcam has finished with a failed camera acquisition, error is
\* set, isStreaming is false, stream is null, no frame loop runs and isLoading
\* is false.
FailedStartIsExplicit ==
    (lastStart = "failed" /\ pendingStarts = <<>>) =>
        /\ error # NoError
        /\ ~isStreaming
        /\ stream = NoStream
        /\ timers = <<>>
        /\ inFlight = 0
        /\ ~isLoading

\* startWebcam has just failed
StartFailed ==
    lastStart = "failed" /\ pendingStarts = <<>> /\ error = ErrWebcam

\* The lifecycle state a (isLoading, isStreaming, stream) combination stands
\* for; stopWebcam passes through Stopping within one handler, and the
\* component has no combination for Failed.
Lifecycle ==
    CASE ~isLoading /\ ~isStreaming /\ stream = NoStream -> "Idle"
      [] isLoading /\ ~isStreaming /\ stream = NoStream -> "Starting"
      [] ~isLoading /\ isStreaming /\ stream # NoStream -> "Active"
      [] OTHER -> "None"

\* C15 as stated: every reachable combination is a lifecycle state and the only
\* changes are Idle -> Starting, Starting -> Active, Active -> (Stopping ->)
\* Idle, Active -> Failed and Failed -> Idle.
LifecycleAsSpecified ==
    /\ [](Lifecycle # "None")
    /\ [][\/ Lifecycle' = Lifecycle
          \/ <<Lifecycle, Lifecycle'>> \in {<<"Idle", "Starting">>,
                                           <<"Starting", "Active">>,
                                           <<"Active", "Idle">>,
                                           <<"Active", "Failed">>,
                                           <<"Failed", "Idle">>}]_vars

\* C15 amended: as stated, plus Starting -> Idle when the camera acquisition
\* fails.
LifecycleWithFailedStart ==
    /\ [](Lifecycle # "None")
    /\ [][\/ Lifecycle' = Lifecycle
          \/ <<Lifecycle, Lifecycle'>> \in {<<"Idle", "Starting">>,
                                           <<"Starting", "Active">>,
                                           <<"Starting", "Idle">>,
                                           <<"Active", "Idle">>,
                                           <<"Active", "Failed">>,
                                           <<"Failed", "Idle">>}]_vars

\* the source is back in Idle after a start that failed
IdleAfterFailedStart ==
    Lifecycle = "Idle" /\ lastStart = "failed" /\ error # NoError

\* C16: while the source is not Active no acquired camera stream is live and
\* the stream handle is null; while it is Active the only live stream is the
\* one the handle holds.
StreamsReleasedOnStop ==
    /\ ~isStreaming => (liveStreams = {} /\ stream = NoStream)
    /\ isStreaming => liveStreams = {stream}

\* the source has been stopped for the second time
StoppedTwice ==
    stoppedSince /\ acquired >= 2 /\ liveStreams = {} /\ stream = NoStream

\* C17: at most one frame loop (one pending sendFrame timer) exists for the
\* webcam source.
OneFrameScheduler == Len(timers) <= 1

\* the source was stopped and started again, and the second start has finished
RestartedSource ==
    isStreaming /\ acquired >= 2 /\ lastStart = "ok" /\ ~stoppedSince /\ inFlight = 0

\* Alerts of key k in a sequence of Alerts
KeyAlertCount(seq, k) ==
    Cardinality({i \in DOMAIN seq : seq[i].source = k[1] /\ seq[i].class = k[2]})

\* C18: a step in which key k has no qualifying detection evaluated and its
\* source is neither started nor stopped leaves the CooldownState of k as it
\* was and emits no Alert for k, whatever happens to the other keys.
CooldownKeysIndependent ==
    [][\A k \in Keys :
          (evalLog'[k] = evalLog[k] /\ active'[k[1]] = active[k[1]]) =>
              /\ cooldown'[k] = cooldown[k]
              /\ KeyAlertCount(alerts', k) = KeyAlertCount(alerts, k)]_vars

\* a pistol Alert and a pistol suppression on one source, its knife key and
\* the keys of the other Active source untouched
PistolAlertedKnifeQuiet ==
    \E s, o \in Sources :
        /\ s # o /\ active[s] /\ active[o]
        /\ cooldown[<<s, "pistol">>].last # NoAlert
        /\ cooldown[<<s, "pistol">>].suppressed = 1
        /\ cooldown[<<s, "knife">>] = QuietState
        /\ \A c \in WeaponClasses : cooldown[<<o, c>>] = QuietState

\* C19: evaluating a batch with no qualifying detection emits no Alert and
\* leaves every CooldownState unchanged; a /detect-image response that does
\* not report an alert gives alertTriggered = false.
EmptyBatchChangesNothing ==
    /\ [][(batches' = batches + 1 /\ evalLog' = evalLog) =>
              (alerts' = alerts /\ cooldown' = cooldown)]_vars
    /\ [](\A data \in DetectBodies :
              data.alert_triggered # "true" => alertTriggeredOrFalse(data) = FALSE)

\* a batch without qualifying detection was evaluated while a key was in cooldown
EmptyBatchDuringCooldown ==
    \E k \in Keys :
        /\ active[k[1]]
        /\ batches = 2
        /\ Len(alerts) = 1
        /\ Len(evalLog[k]) = 1
        /\ cooldown[k].last # NoAlert
        /\ \A j \in Keys \ {k} : evalLog[j] = <<>> /\ cooldown[j] = QuietState

\* C13: no counter of the stats state is ever lower than before.
StatsNeverDecrease ==
    [][(~stats.isNull /\ ~stats'.isNull) =>
          /\ stats'.total_detections >= stats.total_detections
          /\ stats'.alerts_sent >= stats.alerts_sent]_vars

\* C14: when a /stats request ends with a non-ok response or a rejection the
\* stats state is unchanged, and the stats state never holds anything but null
\* or a snapshot with counters >= 0.
FailedPollKeepsStats ==
    /\ [][(BagCardinality(statsReqs') < BagCardinality(statsReqs) /\ lastStats' \in {"notok", "throw"})
             => stats' = stats]_vars
    /\ [](stats = NoStats \/
            (~stats.isNull /\ stats.total_detections >= 0 /\ stats.alerts_sent >= 0))

\* a poll has just failed while stats holds counted detections
PollFailedWithGoodStats ==
    lastStats \in {"notok", "throw"} /\ ~stats.isNull /\ stats.total_detections > 0

\* C20: each counter equals the increments of the completed calls plus those
\* the calls in progress have made so far (so the sum of the completed calls
\* when no call is in progress), and every value a snapshot holds lies between
\* the increments completed and the increments completed or in progress when
\* it was read.
NoStatisticsUpdateLost ==
    /\ \A c \in CounterNames : store[c] = completed[c] + MadeInProgress(c)
    /\ (\A s \in Sources : calls[s] = IdleCall) => store = completed
    /\ \A c \in CounterNames : snapLow[c] <= snapView[c] /\ snapView[c] <= snapHigh[c]

\* two sources are inside a call on the same counter after an earlier call
\* completed, and a snapshot has read that counter
ConcurrentRecords ==
    /\ \A s \in Sources : calls[s].todo # <<>> /\ Head(calls[s].todo) = "total_detections"
    /\ completed["total_detections"] > 0
    /\ snapRead >= 1 /\ snapView["total_detections"] > 0

\* C21: the results shown belong to the selected image: processedImage,
\* detections and alertTriggered are reset, or come from a request made for
\* the image that is selected now.
ResultsBelongToImage ==
    /\ processedImage \in {NoImage, image}
    /\ processedImage = NoImage => (appDetections = <<>> /\ alertTriggered = FALSE)

\* C23: at most one /detect-image request is outstanding, loading is true
\* while one is, and detectWeapons only starts a request when loading is false.
OneDetectRequest ==
    /\ [](Len(detectReqs) <= 1)
    /\ [](detectReqs # <<>> => loading)
    /\ [][detectsMade' > detectsMade => ~loading]_vars

\* a second request is outstanding, made after the first one settled
SecondDetectOutstanding ==
    detectsMade >= 2 /\ Len(detectReqs) = 1 /\ loading /\ processedImage # NoImage

\* C24: whenever a /detect-image request settles, with any outcome, loading is
\* false afterwards, and loading is never true with no request outstanding.
LoadingAlwaysCleared ==
    /\ [][Len(detectReqs') < Len(detectReqs) => ~loading']_vars
    /\ [](loading => detectReqs # <<>>)

\* the last request was rejected and the tab is no longer loading
LoadingClearedAfterThrow ==
    lastDetect = "throw" /\ ~loading /\ detectReqs = <<>> /\ detectsMade > 0

\* C25: a /detect-image request that settles with a non-ok response or a
\* rejection changes none of processedImage, detections, alertTriggered and
\* stats, and issues no /stats request.
FailedDetectChangesNothing ==
    [][(Len(detectReqs') < Len(detectReqs) /\ lastDetect' \in {"notok", "throw"})
          => UNCHANGED <<processedImage, appDetections, alertTriggered, stats, statsReqs>>]_vars

\* a detection failed while the results of an earlier one are shown
DetectFailedWithResults ==
    /\ lastDetect \in {"notok", "throw"}
    /\ processedImage # NoImage /\ appDetections # <<>> /\ alertTriggered
    /\ ~stats.isNull

\* C22: when WebcamDetection is unmounted while streaming, no camera stream
\* is live and no frame timer is pending after the unmount.
UnmountReleasesCamera ==
    [][(mounted /\ ~mounted' /\ isStreaming) => (liveStreams' = {} /\ timers' = <<>>)]_vars

====
